---- MODULE Spec2Model ----
(***************************************************************************)
(* Progress, points and badge bookkeeping of the learning dashboard:       *)
(* the hosted store (profiles.total_points, user_module_progress,          *)
(* user_badges) and the client handlers of the student Dashboard,          *)
(* ModulePage and ModuleDetail that read and write it.                     *)
(*                                                                         *)
(* Every await of a handler is one step: the request is answered by the    *)
(* store (ok) or fails (~ok), and other sessions and query refetches may   *)
(* run in between.  A closure keeps the values it captured at call time    *)
(* (profile, selectedModule, completedQuizzes) in op[s].                   *)
(***************************************************************************)
EXTENDS Integers, Sequences, FiniteSets, TLC

\* ---------------------------------------------------------------- bounds
MaxQuizzes == 2
MaxPoints == 10
MaxAwarded == 20
MaxBadges == 2
MaxFailures == 1
MaxRows == 3

\* ----------------------------------------------------- program constants
PassingScore == 85
QuizPoints == 5
MinPointsReward == 5
DefaultIncrement == 100

Sessions == {"s1", "s2"}
MainSessions == {"s1"}
UserId == "u1"

\* null of a numeric column or of an object reference
Null == -1

\* modules the generateModules API can return (id, duration, difficulty)
ApiModules ==
  { [id |-> 101, estimated_duration |-> 45, difficulty |-> "intermediate"] }

Min(a, b) == IF a < b THEN a ELSE b
Max(a, b) == IF a > b THEN a ELSE b

\* Math.round(num / den) for num >= 0, den > 0
Round(num, den) == (2 * num + den) \div (2 * den)

\* difficultyMultiplier, in halves; unknown difficulty falls back to 1
difficultyMultiplier2(difficulty) ==
  CASE difficulty = "beginner" -> 2
    [] difficulty = "intermediate" -> 3
    [] difficulty = "advanced" -> 4
    [] OTHER -> 2

calculatePointsReward(duration, difficulty) ==
  LET d == IF duration = Null THEN 0 ELSE duration
      basePoints == Round(d, 10)
      calculatedPoints == Round(basePoints * difficultyMultiplier2(difficulty), 2)
  IN  Max(MinPointsReward, Round(calculatedPoints, 5) * 5)

VARIABLES
  total_points,          \* profiles.total_points of the user
  user_module_progress,  \* table rows in insertion order; id = position
  user_badges,           \* table rows in insertion order
  profile,               \* per session: cached profile query (total_points)
  modules,               \* per session: cached modules query
  selectedModule,        \* per session: module open in the dialog
  answers, quizResults, completedQuizzes, incorrectQuizzes,
  pc, op,                \* per session: handler position and its closure
  result,                \* per session: how the last mutation ended
  inval,                 \* per session: query keys invalidated by the running/last handler
  route,                 \* per session: the page the router shows
  mp,                    \* per session: ModulePage component state
  md_updating,           \* per session: ModuleDetail.updating
  progress_rows,         \* the table "progress" ModuleDetail writes to
  failures,              \* requests that failed so far
  awarded,               \* history: points whose write the store answered without error
  completions,           \* history: completeModule calls whose points write was answered so
  passed,                \* history: modules whose latest completion had a passing score
  db,                    \* rows (table, owner) of the tables under row level security
  lastReq,               \* the last request to those tables and the rows it touched
  called,                \* per session: the handler last called by CallStep
  auth_users,            \* ids of the rows of auth.users
  profiles,              \* rows of public.profiles in insertion order
  session,               \* auth.uid() of the browser's supabase client
  su,                    \* Auth.handleSignUp: position, form data, what was reported
  lessons,               \* rows of the table "lessons" in insertion order
  academic,              \* rows of the table "academic" in insertion order
  tp                     \* teacher pages: the running handleSubmit

storeVars == <<total_points, user_module_progress, user_badges>>
uiVars == <<selectedModule, answers, quizResults, completedQuizzes, incorrectQuizzes>>
cacheVars == <<profile, modules>>
ctlVars == <<pc, op, result, inval>>
pageVars == <<route, mp, md_updating, progress_rows>>
histVars == <<awarded, completions, passed>>
rlsVars == <<db, lastReq>>
authVars == <<auth_users, profiles, session, su>>
teacherVars == <<lessons, academic, tp>>
otherVars == <<rlsVars, called, authVars, teacherVars>>
vars == <<storeVars, cacheVars, uiVars, ctlVars, pageVars, failures, histVars, otherVars>>

QuizIds == 1..MaxQuizzes

NoModule ==
  [module_id |-> Null, points_reward |-> 0, is_completed |-> FALSE,
   is_read_only |-> FALSE, nquiz |-> 0]

NoOp ==
  [module_id |-> Null, points_reward |-> 0, num |-> 0, den |-> 1,
   total |-> 0, progress |-> 0, mods |-> {}, pointsWritten |-> FALSE]

NoResult ==
  [status |-> "none", earnedBadge |-> Null, hasPassingScore |-> FALSE,
   modulePoints |-> 0]

NoPage ==
  [id |-> Null, points_reward |-> Null, progress |-> 0, completed |-> FALSE,
   nquiz |-> 0, index |-> 0]

NoAnswers == [q \in QuizIds |-> "none"]

\* the unauthenticated role: auth.uid() is null
Anon == "anon"

NoReq == [kind |-> "none", uid |-> Anon, table |-> "none", rows |-> {}]

\* a column that is null, a form field that is not in the form
NoValue == "null"

\* handleSignUp is not running and has reported nothing
NoSignUp ==
  [pc |-> "idle", email |-> NoValue, user |-> Anon, role |-> NoValue,
   skillLevel |-> NoValue, form |-> NoValue, subject |-> NoValue,
   reported |-> "none"]

\* no handleSubmit of the teacher pages is running
NoSubmit == [pc |-> "idle", page |-> "none", user |-> Anon, contentType |-> "none"]

\* the state after the pages of the sessions S have mounted and loaded
InitFor(S, failed) ==
  /\ total_points = 0
  /\ user_module_progress = << >>
  /\ user_badges = << >>
  /\ profile = [s \in S |-> 0]
  /\ modules = [s \in S |-> << >>]
  /\ selectedModule = [s \in S |-> NoModule]
  /\ answers = [s \in S |-> NoAnswers]
  /\ quizResults = [s \in S |-> NoAnswers]
  /\ completedQuizzes = [s \in S |-> {}]
  /\ incorrectQuizzes = [s \in S |-> {}]
  /\ pc = [s \in S |-> "idle"]
  /\ op = [s \in S |-> NoOp]
  /\ result = [s \in S |-> NoResult]
  /\ inval = [s \in S |-> {}]
  /\ route = [s \in S |-> "dashboard"]
  /\ mp = [s \in S |-> NoPage]
  /\ md_updating = [s \in S |-> FALSE]
  /\ progress_rows = << >>
  /\ failures = failed
  /\ awarded = 0
  /\ completions = 0
  /\ passed = {}
  /\ db = {}
  /\ lastReq = NoReq
  /\ called = [s \in S |-> "none"]
  /\ auth_users = {}
  /\ profiles = << >>
  /\ session = Anon
  /\ su = NoSignUp
  /\ lessons = << >>
  /\ academic = << >>
  /\ tp = NoSubmit

Init == InitFor(MainSessions, 0)

\* ------------------------------------------------------------ the store

\* the table without its unique constraint
noUniqueConstraint(rows) == TRUE

\* UNIQUE(user_id, module_id) of user_module_progress
UniqueUserModule(rows) ==
  \A i, j \in 1..Len(rows) :
    (rows[i].user_id = rows[j].user_id /\ rows[i].module_id = rows[j].module_id)
      => i = j

\* rows with fresh ids appended; the statement fails as a whole (23505)
\* when the result would break the unique constraint
WithIds(rows, new) ==
  [k \in 1..Len(new) |-> [new[k] EXCEPT !.id = Len(rows) + k]]

InsertRows(rows, new) ==
  IF UniqueUserModule(rows \o WithIds(rows, new))
    THEN [error |-> "none", rows |-> rows \o WithIds(rows, new)]
    ELSE [error |-> "23505", rows |-> rows]

ProgressRow(uid, mid, pct, done, ro, pts, dur, diff) ==
  [id |-> 0, user_id |-> uid, module_id |-> mid, progress_percentage |-> pct,
   is_completed |-> done, is_read_only |-> ro, points_reward |-> pts,
   estimated_duration |-> dur, difficulty |-> diff]

Matches(row, uid, mid) == row.user_id = uid /\ row.module_id = mid


\* update(...).eq("module_id", mid).eq("user_id", uid) of completeModule
SetCompleted(rows, uid, mid) ==
  [i \in 1..Len(rows) |->
     IF Matches(rows[i], uid, mid)
       THEN [rows[i] EXCEPT !.progress_percentage = 100, !.is_completed = TRUE,
                            !.is_read_only = TRUE]
       ELSE rows[i]]

\* an update that resets the percentage and leaves the flags
resetProgressOnly(rows, uid, mid) ==
  [i \in 1..Len(rows) |->
     IF Matches(rows[i], uid, mid)
       THEN [rows[i] EXCEPT !.progress_percentage = 0]
       ELSE rows[i]]

\* update(...) of resetModuleForRetake
SetReset(rows, uid, mid) ==
  [i \in 1..Len(rows) |->
     IF Matches(rows[i], uid, mid)
       THEN [rows[i] EXCEPT !.progress_percentage = 0, !.is_completed = FALSE,
                            !.is_read_only = FALSE]
       ELSE rows[i]]

\* update({progress_percentage}) of submitQuizAnswer
SetProgress(rows, uid, mid, pct) ==
  [i \in 1..Len(rows) |->
     IF Matches(rows[i], uid, mid)
       THEN [rows[i] EXCEPT !.progress_percentage = pct]
       ELSE rows[i]]

\* ------------------------------------------------------------- queries

Reverse(seq) == [i \in 1..Len(seq) |-> seq[Len(seq) + 1 - i]]

RECURSIVE OwnedBy(_, _)
OwnedBy(rows, uid) ==
  IF rows = << >> THEN << >>
  ELSE IF Head(rows).user_id = uid
         THEN <<Head(rows)>> \o OwnedBy(Tail(rows), uid)
         ELSE OwnedBy(Tail(rows), uid)

\* the reduce that removes duplicates by module_id
RECURSIVE uniqueModules(_, _)
uniqueModules(acc, data) ==
  IF data = << >> THEN acc
  ELSE
    LET current == Head(data)
        hits == {i \in 1..Len(acc) : acc[i].module_id = current.module_id}
    IN  IF hits = {}
          THEN uniqueModules(Append(acc, current), Tail(data))
          ELSE
            LET existingIndex == CHOOSE i \in hits : \A j \in hits : i <= j
                existing == acc[existingIndex]
            IN  IF current.is_completed /\ ~existing.is_completed
                  THEN uniqueModules([acc EXCEPT ![existingIndex] = current], Tail(data))
                ELSE IF current.progress_percentage > existing.progress_percentage
                  THEN uniqueModules([acc EXCEPT ![existingIndex] = current], Tail(data))
                ELSE uniqueModules(acc, Tail(data))

\* queryFn of the modules query: newest first, then deduplicated
modulesQuery(rows, uid) == uniqueModules(<< >>, Reverse(OwnedBy(rows, uid)))

modulesWithConsistentPoints(s) ==
  [i \in 1..Len(modules[s]) |->
     [modules[s][i] EXCEPT !.points_reward =
        IF modules[s][i].points_reward > 0
          THEN modules[s][i].points_reward
          ELSE calculatePointsReward(modules[s][i].estimated_duration,
                                     modules[s][i].difficulty)]]

\* the profile query is answered (after an invalidation, a mount or a focus)
RefetchProfile(s) ==
  /\ profile[s] # total_points
  /\ profile' = [profile EXCEPT ![s] = total_points]
  /\ UNCHANGED <<storeVars, modules, uiVars, ctlVars, pageVars, histVars>>

\* the modules query is answered (after a mount or a window focus)
RefetchModules(s) ==
  /\ modules[s] # modulesQuery(user_module_progress, UserId)
  /\ modules' = [modules EXCEPT ![s] = modulesQuery(user_module_progress, UserId)]
  /\ UNCHANGED <<storeVars, profile, uiVars, ctlVars, pageVars, histVars>>

\* ------------------------------------------------- quiz score and progress

\* number of quizzes of the module answered with the correct answer
correctCount(module, currentAnswers) ==
  Cardinality({q \in 1..module.nquiz : currentAnswers[q] = "right"})

\* calculateQuizScore as the fraction num/den (a float in the source)
calculateQuizScore(module, currentAnswers) ==
  IF module.nquiz = 0
    THEN [num |-> 0, den |-> 1]
    ELSE [num |-> correctCount(module, currentAnswers) * 100, den |-> module.nquiz]

\* a threshold that every score meets
passesWithAnyScore(score) == score.num >= 0

\* score >= 85
hasPassingScore(score) == score.num >= PassingScore * score.den

\* Object.keys(answers).length
answerCount(s) == Cardinality({q \in QuizIds : answers[s][q] # "none"})

\* the percentage without Math.min
progressUncapped(completedCount, length) ==
  IF length = 0 THEN 100 ELSE (completedCount * 100) \div length

\* Math.min(Math.floor((completedCount / length) * 100), 100); with no
\* quizzes the quotient is Infinity and the minimum is 100
progressPercentage(completedCount, length) ==
  IF length = 0 THEN 100 ELSE Min((completedCount * 100) \div length, 100)

\* useUserProgress returns {userLevel, badges, loading}; Dashboard takes
\* data, isLoading, error and refetch from it
useUserProgressKeys == {"userLevel", "badges", "loading"}
refetchLevelDefined == "refetch" \in useUserProgressKeys

\* a handler starts: what the previous one left behind is forgotten
forgetLast(s) ==
  /\ result' = [result EXCEPT ![s] = NoResult]
  /\ inval' = [inval EXCEPT ![s] = {}]

\* queryClient.invalidateQueries: the modules query, when among the keys, is
\* fetched again from the rows the store holds after the write
invalidate(s, keys, rows) ==
  /\ inval' = [inval EXCEPT ![s] = @ \cup keys]
  /\ modules' = IF "modules" \in keys
                  THEN [modules EXCEPT ![s] = modulesQuery(rows, UserId)]
                  ELSE modules

onDashboard(s) == route[s] = "dashboard" /\ pc[s] = "idle"

isOpen(s) == selectedModule[s].module_id # Null
\* a guard that never returns early
neverLocked(s) == FALSE

isLocked(s) == selectedModule[s].is_read_only \/ selectedModule[s].is_completed


\* --------------------------------------------------- Dashboard: the dialog

\* openModule on the i-th module card; nquiz quizzes come back from the
\* quiz generation (0: none, the generation failed)
openModule(s, i, nquiz) ==
  /\ onDashboard(s)
  /\ ~isOpen(s)
  /\ i \in 1..Len(modules[s])
  /\ LET module == modulesWithConsistentPoints(s)[i]
         fresh == ~module.is_completed /\ ~module.is_read_only
     IN  /\ (~fresh) => nquiz = 0
         /\ selectedModule' = [selectedModule EXCEPT ![s] =
              [module_id |-> module.module_id, points_reward |-> module.points_reward,
               is_completed |-> module.is_completed,
               is_read_only |-> module.is_read_only, nquiz |-> nquiz]]
         /\ IF fresh
              THEN /\ answers' = [answers EXCEPT ![s] = NoAnswers]
                   /\ quizResults' = [quizResults EXCEPT ![s] = NoAnswers]
                   /\ completedQuizzes' = [completedQuizzes EXCEPT ![s] = {}]
                   /\ incorrectQuizzes' = [incorrectQuizzes EXCEPT ![s] = {}]
              ELSE UNCHANGED <<answers, quizResults, completedQuizzes, incorrectQuizzes>>
  /\ forgetLast(s)
  /\ UNCHANGED <<storeVars, cacheVars, pc, op, pageVars, histVars>>

closeModule(s) ==
  /\ onDashboard(s)
  /\ isOpen(s)
  /\ selectedModule' = [selectedModule EXCEPT ![s] = NoModule]
  /\ UNCHANGED <<answers, quizResults, completedQuizzes, incorrectQuizzes>>
  /\ forgetLast(s)
  /\ UNCHANGED <<storeVars, cacheVars, pc, op, pageVars, histVars>>

\* the radio input of quiz q is rendered and enabled, and a is not the
\* option already checked
radioEnabled(s, q, a) ==
  /\ q \in 1..selectedModule[s].nquiz
  /\ ~selectedModule[s].is_read_only
  /\ answers[s][q] # a

\* handleAnswerSelect(quizId, answer): returns early (with a toast) on a
\* completed or read-only module
handleAnswerSelect(s, q, a) ==
  /\ onDashboard(s)
  /\ isOpen(s)
  /\ IF isLocked(s)
       THEN UNCHANGED answers
       ELSE answers' = [answers EXCEPT ![s][q] = a]
  /\ UNCHANGED <<selectedModule, quizResults, completedQuizzes, incorrectQuizzes>>
  /\ forgetLast(s)
  /\ UNCHANGED <<storeVars, cacheVars, pc, op, pageVars, histVars>>

\* the Retry buttons are rendered: the module is not read-only and
\* incorrectQuizzes is not empty
retryShown(s) ==
  /\ ~selectedModule[s].is_read_only
  /\ incorrectQuizzes[s] # {}

\* every entry deleted, as retryAllQuizzes does
withoutAll(s, entries) == NoAnswers

\* incorrectQuizzes.forEach(quizId => delete entries[quizId])
withoutIncorrect(s, entries) ==
  [q \in QuizIds |-> IF q \in incorrectQuizzes[s] THEN "none" ELSE entries[q]]

\* retryIncorrectAnswers: returns at once on a read-only module
retryIncorrectAnswers(s) ==
  /\ onDashboard(s)
  /\ isOpen(s)
  /\ IF selectedModule[s].is_read_only
       THEN UNCHANGED <<answers, quizResults, completedQuizzes, incorrectQuizzes>>
       ELSE /\ answers' = [answers EXCEPT ![s] = withoutIncorrect(s, answers[s])]
            /\ quizResults' = [quizResults EXCEPT ![s] =
                                 withoutIncorrect(s, quizResults[s])]
            /\ completedQuizzes' = [completedQuizzes EXCEPT ![s] =
                                      @ \ incorrectQuizzes[s]]
            /\ incorrectQuizzes' = [incorrectQuizzes EXCEPT ![s] = {}]
  /\ UNCHANGED selectedModule
  /\ forgetLast(s)
  /\ UNCHANGED <<storeVars, cacheVars, pc, op, pageVars, histVars>>

\* the Retry All / Start Over button
retryAllQuizzes(s) ==
  /\ onDashboard(s)
  /\ isOpen(s)
  /\ IF selectedModule[s].is_read_only
       THEN UNCHANGED <<answers, quizResults, completedQuizzes, incorrectQuizzes>>
       ELSE /\ answers' = [answers EXCEPT ![s] = NoAnswers]
            /\ quizResults' = [quizResults EXCEPT ![s] = NoAnswers]
            /\ completedQuizzes' = [completedQuizzes EXCEPT ![s] = {}]
            /\ incorrectQuizzes' = [incorrectQuizzes EXCEPT ![s] = {}]
  /\ UNCHANGED selectedModule
  /\ forgetLast(s)
  /\ UNCHANGED <<storeVars, cacheVars, pc, op, pageVars, histVars>>

\* ------------------------------------------- Dashboard: submitQuizAnswer

\* the Submit Answer button of quiz q is rendered and enabled
submitEnabled(s, q) ==
  /\ q \in 1..selectedModule[s].nquiz
  /\ ~selectedModule[s].is_read_only
  /\ answers[s][q] # "none"

\* submitQuizAnswer(quiz), up to the first await: returns early (with a
\* toast) on a completed or read-only module and when no answer is selected
submitQuizAnswer(s, q) ==
  /\ onDashboard(s)
  /\ isOpen(s)
  /\ IF isLocked(s) \/ answers[s][q] = "none"
       THEN UNCHANGED <<quizResults, completedQuizzes, incorrectQuizzes, pc, op>>
       ELSE
         LET isCorrect == answers[s][q] = "right"
         IN  /\ quizResults' = [quizResults EXCEPT ![s][q] =
                                  IF isCorrect THEN "true" ELSE "false"]
             /\ completedQuizzes' = [completedQuizzes EXCEPT ![s] = @ \cup {q}]
             /\ IF isCorrect
                  THEN /\ profile[s] + QuizPoints <= MaxPoints
                       /\ awarded + QuizPoints <= MaxAwarded
                       /\ incorrectQuizzes' = [incorrectQuizzes EXCEPT ![s] = @ \ {q}]
                       /\ pc' = [pc EXCEPT ![s] = "sq_points"]
                       /\ op' = [op EXCEPT ![s] =
                            [NoOp EXCEPT !.module_id = selectedModule[s].module_id,
                                         !.total = profile[s] + QuizPoints,
                                         !.progress = progressPercentage(
                                            Cardinality(completedQuizzes[s]) + 1,
                                            selectedModule[s].nquiz)]]
                  ELSE /\ incorrectQuizzes' = [incorrectQuizzes EXCEPT ![s] = @ \cup {q}]
                       /\ UNCHANGED <<pc, op>>
  /\ forgetLast(s)
  /\ UNCHANGED <<selectedModule, answers>>
  /\ UNCHANGED <<storeVars, cacheVars, pageVars, histVars>>

\* profiles.update({total_points: newPoints}) is answered
sqPointsAnswered(s, ok) ==
  /\ pc[s] = "sq_points"
  /\ IF ok
       THEN /\ total_points' = op[s].total
            /\ awarded' = awarded + QuizPoints
            /\ invalidate(s, {"profile"}, user_module_progress)
       ELSE UNCHANGED <<total_points, awarded, inval, modules>>
  /\ UNCHANGED <<completions, passed>>
  /\ pc' = [pc EXCEPT ![s] = "sq_progress"]
  /\ UNCHANGED <<user_module_progress, user_badges, profile, uiVars, op, result,
                 pageVars>>

\* user_module_progress.update({progress_percentage}) is answered
sqProgressAnswered(s, ok) ==
  /\ pc[s] = "sq_progress"
  /\ IF ok
       THEN /\ user_module_progress' =
                 SetProgress(user_module_progress, UserId, op[s].module_id, op[s].progress)
            /\ invalidate(s, {"modules"}, user_module_progress')
       ELSE UNCHANGED <<user_module_progress, inval, modules>>
  /\ pc' = [pc EXCEPT ![s] = "idle"]
  /\ op' = [op EXCEPT ![s] = NoOp]
  /\ UNCHANGED <<total_points, user_badges, profile, uiVars, result,
                 pageVars, histVars>>

\* --------------------------------------------- Dashboard: completeModule

\* how completeModuleMutation ends once mutationFn has returned: onSuccess
\* invalidates the modules and profile queries and calls refetchLevel(); a
\* throw inside onSuccess sends the mutation to onError
onSuccessEnd(s, badge, before) ==
  /\ invalidate(s, before \cup {"modules", "profile"}, user_module_progress)
  /\ IF refetchLevelDefined
       THEN result' = [result EXCEPT ![s] =
                 [status |-> "success", earnedBadge |-> badge,
                  hasPassingScore |-> hasPassingScore(op[s]),
                  modulePoints |-> op[s].points_reward]]
       ELSE result' = [result EXCEPT ![s] = [NoResult EXCEPT !.status = "error"]]

\* onError of completeModuleMutation ("Failed to complete module")
onErrorEnd(s) ==
  result' = [result EXCEPT ![s] = [NoResult EXCEPT !.status = "error"]]

\* the Complete Module button: handleCompleteModule and mutationFn up to
\* the first await
handleCompleteModule(s) ==
  /\ onDashboard(s)
  /\ isOpen(s)
  /\ ~selectedModule[s].is_read_only
  /\ answerCount(s) = selectedModule[s].nquiz
  /\ profile[s] + selectedModule[s].points_reward <= MaxPoints
  /\ awarded + selectedModule[s].points_reward <= MaxAwarded
  /\ Len(user_badges) < MaxBadges
  /\ LET score == calculateQuizScore(selectedModule[s], answers[s])
     IN  op' = [op EXCEPT ![s] =
           [NoOp EXCEPT !.module_id = selectedModule[s].module_id,
                        !.points_reward = selectedModule[s].points_reward,
                        !.num = score.num, !.den = score.den,
                        !.total = profile[s] + selectedModule[s].points_reward]]
  /\ pc' = [pc EXCEPT ![s] = "cm_update"]
  /\ forgetLast(s)
  /\ UNCHANGED <<storeVars, cacheVars, uiVars, pageVars, histVars>>

\* the update of the progress row is answered
cmUpdateAnswered(s, ok) ==
  /\ pc[s] = "cm_update"
  /\ IF ok
       THEN /\ user_module_progress' =
                 SetCompleted(user_module_progress, UserId, op[s].module_id)
            /\ passed' = IF hasPassingScore(op[s])
                           THEN passed \cup {op[s].module_id}
                           ELSE passed \ {op[s].module_id}
            /\ pc' = [pc EXCEPT ![s] = "cm_points"]
            /\ UNCHANGED op
            /\ UNCHANGED result
       ELSE /\ onErrorEnd(s)
            /\ pc' = [pc EXCEPT ![s] = "idle"]
            /\ op' = [op EXCEPT ![s] = NoOp]
            /\ UNCHANGED <<user_module_progress, passed>>
  /\ UNCHANGED <<total_points, user_badges, cacheVars, uiVars, inval, pageVars,
                 awarded, completions>>

\* the update of total_points is answered (its error is not looked at);
\* below the passing score mutationFn returns and onSuccess runs
cmPointsAnswered(s, ok) ==
  /\ pc[s] = "cm_points"
  /\ IF ok
       THEN /\ total_points' = op[s].total
            /\ awarded' = awarded + op[s].points_reward
            /\ completions' = completions + 1
       ELSE UNCHANGED <<total_points, awarded, completions>>
  /\ UNCHANGED passed
  /\ IF hasPassingScore(op[s])
       THEN /\ pc' = [pc EXCEPT ![s] = "cm_badge"]
            /\ op' = [op EXCEPT ![s].pointsWritten = ok]
            /\ UNCHANGED <<result, inval, modules>>
       ELSE /\ onSuccessEnd(s, Null, {})
            /\ pc' = [pc EXCEPT ![s] = "idle"]
            /\ op' = [op EXCEPT ![s] = NoOp]
  /\ UNCHANGED <<user_module_progress, user_badges, profile, uiVars, pageVars>>

\* awardBadgeMutation: the insert into user_badges is answered, then
\* mutationFn goes on to await refetchLevel()
cmBadgeAnswered(s, ok) ==
  /\ pc[s] = "cm_badge"
  /\ IF ok
       THEN /\ user_badges' = Append(user_badges,
                 [id |-> Len(user_badges) + 1, user_id |-> UserId,
                  module_id |-> op[s].module_id])
            /\ IF refetchLevelDefined
                 THEN onSuccessEnd(s, Len(user_badges) + 1, {"userBadges"})
                 ELSE /\ onErrorEnd(s)
                      /\ invalidate(s, {"userBadges"}, user_module_progress)
       ELSE /\ onErrorEnd(s)
            /\ UNCHANGED <<user_badges, inval, modules>>
  /\ pc' = [pc EXCEPT ![s] = "idle"]
  /\ op' = [op EXCEPT ![s] = NoOp]
  /\ UNCHANGED <<total_points, user_module_progress, profile, uiVars, pageVars, histVars>>

\* ---------------------------------------- Dashboard: resetModuleForRetake

\* calculateQuizScore(...) < 85
scoreBelowPassing(score) == score.num < PassingScore * score.den

\* the Retake Module button, up to the await
resetModuleForRetake(s) ==
  /\ onDashboard(s)
  /\ isOpen(s)
  /\ selectedModule[s].is_read_only
  /\ scoreBelowPassing(calculateQuizScore(selectedModule[s], answers[s]))
  /\ pc' = [pc EXCEPT ![s] = "rs_update"]
  /\ op' = [op EXCEPT ![s] = [NoOp EXCEPT !.module_id = selectedModule[s].module_id]]
  /\ forgetLast(s)
  /\ UNCHANGED <<storeVars, cacheVars, uiVars, pageVars, histVars>>

\* the update of the progress row is answered
rsUpdateAnswered(s, ok) ==
  /\ pc[s] = "rs_update"
  /\ IF ok
       THEN /\ user_module_progress' =
                 SetReset(user_module_progress, UserId, op[s].module_id)
            /\ answers' = [answers EXCEPT ![s] = NoAnswers]
            /\ quizResults' = [quizResults EXCEPT ![s] = NoAnswers]
            /\ completedQuizzes' = [completedQuizzes EXCEPT ![s] = {}]
            /\ incorrectQuizzes' = [incorrectQuizzes EXCEPT ![s] = {}]
            /\ invalidate(s, {"modules"}, user_module_progress')
       ELSE /\ UNCHANGED <<user_module_progress, answers, quizResults,
                           completedQuizzes, incorrectQuizzes, inval, modules>>
  /\ pc' = [pc EXCEPT ![s] = "idle"]
  /\ op' = [op EXCEPT ![s] = NoOp]
  /\ UNCHANGED <<total_points, user_badges, profile, selectedModule, result,
                 pageVars, histVars>>

\* ------------------------------------------- Dashboard: generateModules

RECURSIVE inIdOrder(_)
inIdOrder(S) ==
  IF S = {} THEN << >>
  ELSE LET m == CHOOSE x \in S : \A y \in S : x.id <= y.id
       IN  <<m>> \o inIdOrder(S \ {m})

\* modulesToInsert
modulesToInsert(uid, mods) ==
  [k \in 1..Len(mods) |->
     ProgressRow(uid, mods[k].id, 0, FALSE, FALSE,
                 calculatePointsReward(mods[k].estimated_duration, mods[k].difficulty),
                 mods[k].estimated_duration, mods[k].difficulty)]

\* the Generate button; the API answers with the modules mods
generateModules(s, mods) ==
  /\ onDashboard(s)
  /\ ~isOpen(s)
  /\ mods \subseteq ApiModules
  /\ IF mods # {}
       THEN /\ pc' = [pc EXCEPT ![s] = "gm_insert"]
            /\ op' = [op EXCEPT ![s] = [NoOp EXCEPT !.mods = mods]]
       ELSE UNCHANGED <<pc, op>>
  /\ forgetLast(s)
  /\ UNCHANGED <<storeVars, cacheVars, uiVars, pageVars, histVars>>

\* the insert of the new progress rows is answered; both onSuccess and
\* the "Modules already exist" branch of onError invalidate the modules query
gmInsertAnswered(s, ok) ==
  /\ pc[s] = "gm_insert"
  /\ LET r == InsertRows(user_module_progress,
                         modulesToInsert(UserId, inIdOrder(op[s].mods)))
     IN  IF ok
           THEN /\ user_module_progress' = r.rows
                /\ invalidate(s, {"modules"}, r.rows)
           ELSE UNCHANGED <<user_module_progress, inval, modules>>
  /\ pc' = [pc EXCEPT ![s] = "idle"]
  /\ op' = [op EXCEPT ![s] = NoOp]
  /\ UNCHANGED <<total_points, user_badges, profile, uiVars, result, pageVars, histVars>>

\* ------------------------------------------------------------ ModulePage

\* the router leaves the Dashboard, whose component state is dropped
dashboardUnmounted(s) ==
  /\ selectedModule' = [selectedModule EXCEPT ![s] = NoModule]
  /\ answers' = [answers EXCEPT ![s] = NoAnswers]
  /\ quizResults' = [quizResults EXCEPT ![s] = NoAnswers]
  /\ completedQuizzes' = [completedQuizzes EXCEPT ![s] = {}]
  /\ incorrectQuizzes' = [incorrectQuizzes EXCEPT ![s] = {}]

\* the route /module/:moduleId is entered and loadModule finds the row;
\* nquiz rows of the quizzes table belong to it
loadModule(s, moduleId, nquiz) ==
  /\ onDashboard(s)
  /\ LET found == {i \in 1..Len(user_module_progress) :
                     Matches(user_module_progress[i], UserId, moduleId)}
     IN  /\ Cardinality(found) = 1
         /\ LET moduleRow == user_module_progress[CHOOSE i \in found : TRUE]
            IN  mp' = [mp EXCEPT ![s] =
                      [id |-> moduleRow.id, points_reward |-> moduleRow.points_reward,
                       progress |-> moduleRow.progress_percentage,
                       completed |-> moduleRow.is_completed,
                       nquiz |-> nquiz, index |-> 0]]
  /\ route' = [route EXCEPT ![s] = "module"]
  /\ dashboardUnmounted(s)
  /\ forgetLast(s)
  /\ UNCHANGED <<storeVars, cacheVars, pc, op, md_updating, progress_rows, histVars>>

\* submitAnswer with the correct answer selected: updateProgress upserts
\* {user_id, module_id: module.id, progress_percentage, is_completed}; the
\* upsert resolves conflicts on the primary key only, and its error is
\* not looked at
submitAnswer(s, ok) ==
  /\ route[s] = "module"
  /\ ~mp[s].completed
  /\ mp[s].nquiz > 0
  /\ LET increment == IF mp[s].points_reward = Null THEN DefaultIncrement
                                                    ELSE mp[s].points_reward
         newProgress == Min(mp[s].progress + increment, 100)
         isComplete == newProgress = 100
         r == InsertRows(user_module_progress,
                <<ProgressRow(UserId, mp[s].id, newProgress, isComplete, FALSE,
                              Null, Null, "none")>>)
         last == ~(mp[s].index + 1 < mp[s].nquiz)
     IN  IF ok
           THEN /\ user_module_progress' = r.rows
                /\ mp' = [mp EXCEPT ![s].progress = newProgress,
                                    ![s].completed = isComplete \/ last,
                                    ![s].index = IF last THEN @ ELSE @ + 1]
           ELSE /\ UNCHANGED user_module_progress
                /\ mp' = [mp EXCEPT ![s].completed = @ \/ last,
                                    ![s].index = IF last THEN @ ELSE @ + 1]
  /\ UNCHANGED <<total_points, user_badges, cacheVars, uiVars, ctlVars, route,
                 md_updating, progress_rows, histVars>>

\* ----------------------------------------------------------- ModuleDetail

\* sessionData?.data?.session?.user?.id, where sessionData is already the
\* data member of getSession()'s answer: there is no data.data
detailUserId == Null

\* the ModuleDetail page is entered
openDetail(s) ==
  /\ onDashboard(s)
  /\ route' = [route EXCEPT ![s] = "detail"]
  /\ dashboardUnmounted(s)
  /\ forgetLast(s)
  /\ UNCHANGED <<storeVars, cacheVars, pc, op, mp, md_updating, progress_rows, histVars>>

\* handleMarkComplete
handleMarkComplete(s, moduleId) ==
  /\ route[s] = "detail"
  /\ ~md_updating[s]
  /\ md_updating' = [md_updating EXCEPT ![s] = (detailUserId = Null)]
  /\ progress_rows' =
       IF detailUserId = Null THEN progress_rows
       ELSE Append(progress_rows,
              [user_id |-> detailUserId, module_id |-> moduleId,
               is_completed |-> TRUE, progress_percentage |-> 100])
  /\ UNCHANGED <<storeVars, cacheVars, uiVars, ctlVars, route, mp, histVars>>

\* the router goes back to the Dashboard
openDashboard(s) ==
  /\ route[s] # "dashboard"
  /\ route' = [route EXCEPT ![s] = "dashboard"]
  /\ mp' = [mp EXCEPT ![s] = NoPage]
  /\ md_updating' = [md_updating EXCEPT ![s] = FALSE]
  /\ UNCHANGED <<storeVars, cacheVars, uiVars, ctlVars, progress_rows, histVars>>

\* ----------------------------------------------------------------- Next

ApiModuleIds == {m.id : m \in ApiModules}

\* a request is answered by the store (ok) or fails on the way
answered(ok) ==
  /\ ok \/ failures < MaxFailures
  /\ failures' = IF ok THEN failures ELSE failures + 1
  /\ UNCHANGED otherVars

SessionStep(s) ==
  \/ RefetchProfile(s) /\ UNCHANGED <<failures, otherVars>>
  \/ RefetchModules(s) /\ UNCHANGED <<failures, otherVars>>
  \/ \E i \in 1..Len(modules[s]), n \in 0..MaxQuizzes : openModule(s, i, n) /\ UNCHANGED <<failures, otherVars>>
  \/ closeModule(s) /\ UNCHANGED <<failures, otherVars>>
  \/ \E q \in QuizIds, a \in {"right", "wrong"} :
       radioEnabled(s, q, a) /\ handleAnswerSelect(s, q, a) /\ UNCHANGED <<failures, otherVars>>
  \/ retryShown(s) /\ retryIncorrectAnswers(s) /\ UNCHANGED <<failures, otherVars>>
  \/ retryShown(s) /\ retryAllQuizzes(s) /\ UNCHANGED <<failures, otherVars>>
  \/ \E q \in QuizIds : submitEnabled(s, q) /\ submitQuizAnswer(s, q) /\ UNCHANGED <<failures, otherVars>>
  \/ \E ok \in BOOLEAN : sqPointsAnswered(s, ok) /\ answered(ok)
  \/ \E ok \in BOOLEAN : sqProgressAnswered(s, ok) /\ answered(ok)
  \/ handleCompleteModule(s) /\ UNCHANGED <<failures, otherVars>>
  \/ \E ok \in BOOLEAN : cmUpdateAnswered(s, ok) /\ answered(ok)
  \/ \E ok \in BOOLEAN : cmPointsAnswered(s, ok) /\ answered(ok)
  \/ \E ok \in BOOLEAN : cmBadgeAnswered(s, ok) /\ answered(ok)
  \/ resetModuleForRetake(s) /\ UNCHANGED <<failures, otherVars>>
  \/ \E ok \in BOOLEAN : rsUpdateAnswered(s, ok) /\ answered(ok)
  \/ \E mods \in SUBSET ApiModules : generateModules(s, mods) /\ UNCHANGED <<failures, otherVars>>
  \/ \E ok \in BOOLEAN : gmInsertAnswered(s, ok) /\ answered(ok)

PageStep(s) ==
  \/ \E m \in ApiModuleIds, n \in 0..MaxQuizzes : loadModule(s, m, n) /\ UNCHANGED <<failures, otherVars>>
  \/ \E ok \in BOOLEAN : submitAnswer(s, ok) /\ answered(ok)
  \/ openDetail(s) /\ UNCHANGED <<failures, otherVars>>
  \/ \E m \in ApiModuleIds : handleMarkComplete(s, m) /\ UNCHANGED <<failures, otherVars>>
  \/ openDashboard(s) /\ UNCHANGED <<failures, otherVars>>

\* the Dashboard of one session, with requests that may fail
Next == \E s \in MainSessions : SessionStep(s)

Spec == Init /\ [][Next]_vars

\* the Dashboard, ModulePage and ModuleDetail of one session; every request
\* is answered
InitPages == InitFor(MainSessions, MaxFailures)

NextPages ==
  \/ \E s \in MainSessions : SessionStep(s)
  \/ \E s \in MainSessions : PageStep(s)

SpecPages == InitPages /\ [][NextPages]_vars

\* ------------------------------------------------ two sessions of one user

\* what two browser sessions of the same user do to user_module_progress:
\* generate, complete (with no quizzes answered), reset, and ModulePage's
\* upsert; every request is answered
RaceStep(s) ==
  \/ RefetchModules(s) /\ UNCHANGED <<failures, otherVars>>
  \/ \E i \in 1..Len(modules[s]) : openModule(s, i, 0) /\ UNCHANGED <<failures, otherVars>>
  \/ closeModule(s) /\ UNCHANGED <<failures, otherVars>>
  \/ handleCompleteModule(s) /\ UNCHANGED <<failures, otherVars>>
  \/ cmUpdateAnswered(s, TRUE) /\ UNCHANGED <<failures, otherVars>>
  \/ cmPointsAnswered(s, TRUE) /\ UNCHANGED <<failures, otherVars>>
  \/ resetModuleForRetake(s) /\ UNCHANGED <<failures, otherVars>>
  \/ rsUpdateAnswered(s, TRUE) /\ UNCHANGED <<failures, otherVars>>
  \/ \E mods \in SUBSET ApiModules : generateModules(s, mods) /\ UNCHANGED <<failures, otherVars>>
  \/ gmInsertAnswered(s, TRUE) /\ UNCHANGED <<failures, otherVars>>
  \/ \E m \in ApiModuleIds : loadModule(s, m, 1) /\ UNCHANGED <<failures, otherVars>>
  \/ submitAnswer(s, TRUE) /\ UNCHANGED <<failures, otherVars>>
  \/ openDashboard(s) /\ UNCHANGED <<failures, otherVars>>

InitRace == InitFor(Sessions, MaxFailures)

NextRace == \E s \in Sessions : RaceStep(s)

SpecRace == InitRace /\ [][NextRace]_vars

\* ------------------------------------------- handlers called while locked

\* handler calls that are recorded in called: handleAnswerSelect and
\* submitQuizAnswer although the dialog shows a completed or read-only
\* module (the page renders no control that calls them there), and
\* retryIncorrectAnswers on any open dialog
CallStep(s) ==
  \/ \E q \in QuizIds, a \in {"right", "wrong"} :
       /\ selectedModule[s].is_read_only \/ selectedModule[s].is_completed
       /\ handleAnswerSelect(s, q, a)
       /\ called' = [called EXCEPT ![s] = "handleAnswerSelect"]
       /\ UNCHANGED <<failures, rlsVars, authVars, teacherVars>>
  \/ \E q \in QuizIds :
       /\ selectedModule[s].is_read_only \/ selectedModule[s].is_completed
       /\ submitQuizAnswer(s, q)
       /\ called' = [called EXCEPT ![s] = "submitQuizAnswer"]
       /\ UNCHANGED <<failures, rlsVars, authVars, teacherVars>>
  \/ /\ retryIncorrectAnswers(s)
     /\ called' = [called EXCEPT ![s] = "retryIncorrectAnswers"]
     /\ UNCHANGED <<failures, rlsVars, authVars, teacherVars>>

NextCalls ==
  \/ \E s \in MainSessions : SessionStep(s)
  \/ \E s \in MainSessions : CallStep(s)

SpecCalls == InitPages /\ [][NextCalls]_vars

\* ------------------------------------------------------ row level security

\* the tables whose rows carry an owner column (profiles.id, user_id elsewhere)
OwnedTables ==
  {"profiles", "user_assessments", "user_module_progress", "user_quiz_attempts",
   "user_achievements"}

\* a table every authenticated user may read
PublicTables == {"learning_modules"}

RlsTables == OwnedTables \cup PublicTables
RlsUsers == {"u1", "u2"}
Identities == RlsUsers \cup {Anon}

\* a policy that lets every authenticated user through
usingAnyone(uid, row) == uid # Anon

\* USING (auth.uid() = id) and USING (auth.uid() = user_id); the comparison
\* with a null auth.uid() is not true
usingOwner(uid, row) == uid # Anon /\ row.owner = uid

\* TO authenticated USING (true)
usingTrue(uid, row) == uid # Anon

\* CREATE POLICY ... ON table FOR cmd
Policies ==
  { [table |-> "profiles", cmd |-> "SELECT", using |-> "owner"],
    [table |-> "profiles", cmd |-> "UPDATE", using |-> "owner"],
    [table |-> "profiles", cmd |-> "INSERT", using |-> "owner"],
    [table |-> "user_assessments", cmd |-> "SELECT", using |-> "owner"],
    [table |-> "user_assessments", cmd |-> "INSERT", using |-> "owner"],
    [table |-> "learning_modules", cmd |-> "SELECT", using |-> "true"],
    [table |-> "user_module_progress", cmd |-> "SELECT", using |-> "owner"],
    [table |-> "user_module_progress", cmd |-> "INSERT", using |-> "owner"],
    [table |-> "user_module_progress", cmd |-> "UPDATE", using |-> "owner"],
    [table |-> "user_quiz_attempts", cmd |-> "SELECT", using |-> "owner"],
    [table |-> "user_quiz_attempts", cmd |-> "INSERT", using |-> "owner"],
    [table |-> "user_achievements", cmd |-> "SELECT", using |-> "owner"],
    [table |-> "user_achievements", cmd |-> "INSERT", using |-> "owner"] }

\* row level security is enabled on every table: a command passes a row when
\* some policy of the table for that command does (a policy without WITH
\* CHECK checks new rows with its USING expression)
permits(uid, cmd, row) ==
  \E p \in Policies :
    /\ p.table = row.table
    /\ p.cmd = cmd
    /\ IF p.using = "owner" THEN usingOwner(uid, row) ELSE usingTrue(uid, row)

\* select * from table, as uid: the rows the SELECT policies let through
rlsSelect(uid, table) ==
  /\ lastReq' = [kind |-> "select", uid |-> uid, table |-> table,
                 rows |-> {r \in db : r.table = table /\ permits(uid, "SELECT", r)}]
  /\ UNCHANGED db

\* insert of a row with the given owner column, as uid
rlsInsert(uid, table, owner) ==
  LET row == [table |-> table, owner |-> owner]
  IN  /\ Cardinality(db \cup {row}) <= MaxRows
      /\ IF permits(uid, "INSERT", row)
           THEN /\ db' = db \cup {row}
                /\ lastReq' = [kind |-> "insert", uid |-> uid, table |-> table,
                               rows |-> {row}]
           ELSE /\ UNCHANGED db
                /\ lastReq' = [kind |-> "insert", uid |-> uid, table |-> table,
                               rows |-> {}]

\* update table set <owner column> = newOwner where <owner column> = owner,
\* as uid: the rows the UPDATE policies let through are written, and the
\* statement fails when a new row does not pass the check
rlsUpdate(uid, table, owner, newOwner) ==
  LET old == {r \in db : r.table = table /\ r.owner = owner /\ permits(uid, "UPDATE", r)}
      new == {[r EXCEPT !.owner = newOwner] : r \in old}
  IN  IF \A r \in new : permits(uid, "UPDATE", r)
        THEN /\ db' = (db \ old) \cup new
             /\ lastReq' = [kind |-> "update", uid |-> uid, table |-> table,
                            rows |-> old \cup new]
        ELSE /\ UNCHANGED db
             /\ lastReq' = [kind |-> "update", uid |-> uid, table |-> table,
                            rows |-> {}]

\* the trigger on_auth_user_created: handle_new_user runs as its definer
\* and inserts the profile of the new user
handle_new_user(newId) ==
  LET row == [table |-> "profiles", owner |-> newId]
  IN  /\ row \notin db
      /\ Cardinality(db) < MaxRows
      /\ db' = db \cup {row}
      /\ lastReq' = [kind |-> "signup", uid |-> Anon, table |-> "auth.users",
                     rows |-> {}]

\* rows of the public tables are there from the start (seeded content)
addPublicRow(table, owner) ==
  /\ table \in PublicTables
  /\ Cardinality(db \cup {[table |-> table, owner |-> owner]}) <= MaxRows
  /\ db' = db \cup {[table |-> table, owner |-> owner]}
  /\ lastReq' = NoReq

appVars ==
  <<storeVars, cacheVars, uiVars, ctlVars, pageVars, failures, histVars, called,
    authVars, teacherVars>>

NextRLS ==
  \/ \E u \in Identities, t \in RlsTables : rlsSelect(u, t) /\ UNCHANGED appVars
  \/ \E u \in Identities, t \in RlsTables, o \in RlsUsers :
       rlsInsert(u, t, o) /\ UNCHANGED appVars
  \/ \E u \in Identities, t \in RlsTables, o \in RlsUsers, n \in RlsUsers :
       rlsUpdate(u, t, o, n) /\ UNCHANGED appVars
  \/ \E u \in RlsUsers : handle_new_user(u) /\ UNCHANGED appVars
  \/ \E t \in PublicTables, o \in RlsUsers : addPublicRow(t, o) /\ UNCHANGED appVars

SpecRLS == InitPages /\ [][NextRLS]_vars

\* ------------------------------------------------- Auth: handleSignUp

\* an email address stands for the id auth.users gives its user
Emails == RlsUsers

\* the id of the user object signUp returns for an address that is already
\* registered when sign-ups are confirmed by email: no row of auth.users
FakeId == "u0"

Roles == {"student", "teacher"}
SkillLevels == {"beginner", "advanced"}
FormValues == {NoValue, "Form 1"}
SubjectValues == {NoValue, "Mathematics"}

\* a toast of handleSignUp ends the handler
suReport(what) == su' = [su EXCEPT !.pc = "idle", !.reported = what]

\* const profileData = {...}
profileData(d) ==
  [id |-> d.user, role |-> d.role, skill_level |-> d.skillLevel,
   form |-> IF d.role = "student" THEN d.form ELSE NoValue,
   subject |-> IF d.role = "student" THEN d.subject ELSE NoValue]

\* the row handle_new_user inserts: id, full_name and email, the other
\* columns at their defaults
newUserProfile(id) ==
  [id |-> id, role |-> NoValue, skill_level |-> "beginner", form |-> NoValue,
   subject |-> NoValue]

\* the policies of profiles look at the id column
profileRow(id) == [table |-> "profiles", owner |-> id]

\* id UUID PRIMARY KEY
primaryKeyTaken(rows, id) == \E i \in 1..Len(rows) : rows[i].id = id

\* the answer of insert(profileData), as uid: the WITH CHECK of the INSERT
\* policy, then the primary key
insertCode(uid, rows, row) ==
  IF ~permits(uid, "INSERT", profileRow(row.id)) THEN "42501"
  ELSE IF primaryKeyTaken(rows, row.id) THEN "23505"
  ELSE "ok"

\* an update that writes no row
updateNothing(uid, rows, id, row) == rows

\* update(profileData).eq("id", user.id), as uid: the rows the UPDATE policy
\* lets through take the new values
updateProfile(uid, rows, id, row) ==
  [i \in 1..Len(rows) |->
     IF rows[i].id = id /\ permits(uid, "UPDATE", profileRow(rows[i].id))
       THEN row
       ELSE rows[i]]

\* the Create Account form is submitted
handleSignUp(email, role, skillLevel, form, subject) ==
  /\ su.pc = "idle"
  /\ tp.pc = "idle"
  /\ su' = [pc |-> "signUp", email |-> email, user |-> Anon, role |-> role,
            skillLevel |-> skillLevel, form |-> form, subject |-> subject,
            reported |-> "none"]
  /\ UNCHANGED <<auth_users, profiles, session>>

\* supabase.auth.signUp is answered; confirm: sign-ups are confirmed by
\* email, so the answer carries no session
suSignUpAnswered(ok, confirm) ==
  /\ su.pc = "signUp"
  /\ IF ~ok
       THEN suReport("error") /\ UNCHANGED <<auth_users, profiles, session>>
       ELSE IF su.email \notin auth_users
         THEN /\ auth_users' = auth_users \cup {su.email}
              /\ profiles' = Append(profiles, newUserProfile(su.email))
              /\ session' = IF confirm THEN session ELSE su.email
              /\ su' = [su EXCEPT !.pc = "insert", !.user = su.email]
         ELSE /\ IF confirm
                   THEN su' = [su EXCEPT !.pc = "insert", !.user = FakeId]
                   ELSE suReport("error")
              /\ UNCHANGED <<auth_users, profiles, session>>

\* insert(profileData) is answered
suInsertAnswered(ok) ==
  /\ su.pc = "insert"
  /\ LET code == IF ok THEN insertCode(session, profiles, profileData(su))
                       ELSE "failed"
     IN  /\ profiles' = IF code = "ok" THEN Append(profiles, profileData(su))
                                       ELSE profiles
         /\ IF code = "ok" THEN suReport("success")
            ELSE IF code = "23505" THEN su' = [su EXCEPT !.pc = "update"]
            ELSE suReport("error")
  /\ UNCHANGED <<auth_users, session>>

\* update(profileData) is answered
suUpdateAnswered(ok) ==
  /\ su.pc = "update"
  /\ IF ok
       THEN /\ profiles' = updateProfile(session, profiles, su.user, profileData(su))
            /\ suReport("success")
       ELSE /\ UNCHANGED profiles
            /\ suReport("error")
  /\ UNCHANGED <<auth_users, session>>

\* handleSignIn: signInWithPassword of a registered user
handleSignIn(email) ==
  /\ su.pc = "idle"
  /\ tp.pc = "idle"
  /\ email \in auth_users
  /\ session # email
  /\ session' = email
  /\ UNCHANGED <<auth_users, profiles, su>>

\* handleLogout: supabase.auth.signOut()
handleLogout ==
  /\ su.pc = "idle"
  /\ tp.pc = "idle"
  /\ session # Anon
  /\ session' = Anon
  /\ UNCHANGED <<auth_users, profiles, su>>

\* ------------------------------------- teacher pages: handleSubmit

\* lessons and academic rows kept
MaxLessons == 2

\* select("role").eq("id", user.id).single(), as uid: the role of the one
\* row the SELECT policy lets through, no data otherwise
selectRole(uid, rows, id) ==
  LET seen == {i \in 1..Len(rows) :
                 rows[i].id = id /\ permits(uid, "SELECT", profileRow(rows[i].id))}
  IN  IF Cardinality(seen) = 1
        THEN rows[CHOOSE i \in seen : TRUE].role
        ELSE NoValue

\* the Save button of TeacherPage, or the submit of CreateLesson
handleSubmit(page, contentType) ==
  /\ su.pc = "idle"
  /\ tp.pc = "idle"
  /\ tp' = [pc |-> "getUser", page |-> page, user |-> Anon,
            contentType |-> contentType]
  /\ UNCHANGED <<lessons, academic>>

\* supabase.auth.getUser() is answered: no user ends the handler
hsGetUserAnswered ==
  /\ tp.pc = "getUser"
  /\ tp' = IF session = Anon THEN NoSubmit
           ELSE [tp EXCEPT !.user = session,
                           !.pc = IF tp.page = "CreateLesson" THEN "role" ELSE "insert"]
  /\ UNCHANGED <<lessons, academic>>

\* CreateLesson: the role of the profile is answered
hsRoleAnswered ==
  /\ tp.pc = "role"
  /\ tp' = IF selectRole(session, profiles, tp.user) # "teacher" THEN NoSubmit
           ELSE [tp EXCEPT !.pc = "insert"]
  /\ UNCHANGED <<lessons, academic>>

\* the insert into lessons or academic is answered
hsInsertAnswered(ok) ==
  /\ tp.pc = "insert"
  /\ IF ok
       THEN IF tp.page = "TeacherPage" /\ tp.contentType # "lesson"
              THEN /\ Len(academic) < MaxLessons
                   /\ academic' = Append(academic, [teacher_id |-> tp.user])
                   /\ UNCHANGED lessons
              ELSE /\ Len(lessons) < MaxLessons
                   /\ lessons' = Append(lessons, [teacher_id |-> tp.user])
                   /\ UNCHANGED academic
       ELSE UNCHANGED <<lessons, academic>>
  /\ tp' = NoSubmit

authRest == <<storeVars, cacheVars, uiVars, ctlVars, pageVars, failures, histVars,
              rlsVars, called>>

NextAuth ==
  \/ \E e \in Emails, r \in Roles, k \in SkillLevels, f \in FormValues,
        j \in SubjectValues :
       handleSignUp(e, r, k, f, j) /\ UNCHANGED <<authRest, teacherVars>>
  \/ \E ok \in BOOLEAN, confirm \in BOOLEAN :
       suSignUpAnswered(ok, confirm) /\ UNCHANGED <<authRest, teacherVars>>
  \/ \E ok \in BOOLEAN : suInsertAnswered(ok) /\ UNCHANGED <<authRest, teacherVars>>
  \/ \E ok \in BOOLEAN : suUpdateAnswered(ok) /\ UNCHANGED <<authRest, teacherVars>>
  \/ \E e \in Emails : handleSignIn(e) /\ UNCHANGED <<authRest, teacherVars>>
  \/ handleLogout /\ UNCHANGED <<authRest, teacherVars>>

SpecAuth == InitPages /\ [][NextAuth]_vars

\* the teacher pages, with the accounts made by sign-ups of either role
NextTeacher ==
  \/ \E e \in Emails, r \in Roles :
       handleSignUp(e, r, "beginner", NoValue, NoValue)
         /\ UNCHANGED <<authRest, teacherVars>>
  \/ \E ok \in BOOLEAN, confirm \in BOOLEAN :
       suSignUpAnswered(ok, confirm) /\ UNCHANGED <<authRest, teacherVars>>
  \/ \E ok \in BOOLEAN : suInsertAnswered(ok) /\ UNCHANGED <<authRest, teacherVars>>
  \/ \E ok \in BOOLEAN : suUpdateAnswered(ok) /\ UNCHANGED <<authRest, teacherVars>>
  \/ \E e \in Emails : handleSignIn(e) /\ UNCHANGED <<authRest, teacherVars>>
  \/ handleLogout /\ UNCHANGED <<authRest, teacherVars>>
  \/ \E page \in {"TeacherPage", "CreateLesson"}, c \in {"lesson", "academic"} :
       handleSubmit(page, c) /\ UNCHANGED <<authRest, authVars>>
  \/ hsGetUserAnswered /\ UNCHANGED <<authRest, authVars>>
  \/ hsRoleAnswered /\ UNCHANGED <<authRest, authVars>>
  \/ \E ok \in BOOLEAN : hsInsertAnswered(ok) /\ UNCHANGED <<authRest, authVars>>

SpecTeacher == InitPages /\ [][NextTeacher]_vars

\* ------------------------------------------------------------ properties

allIdle == \A s \in DOMAIN pc : pc[s] = "idle"
completing == {"cm_update", "cm_points", "cm_badge"}

\* C1: user_badges holds at most one row for a (user_id, module_id) pair,
\* also after a second completion from a dialog that stayed open or after
\* a retake.
C1_BadgeOncePerModule ==
  \A i, j \in 1..Len(user_badges) :
    (user_badges[i].user_id = user_badges[j].user_id
       /\ user_badges[i].module_id = user_badges[j].module_id) => i = j

\* C2: no step of submitQuizAnswer or completeModule lowers the stored
\* profiles.total_points, whenever the cached profile was last read.
C2_PointsNeverDecrease == [][total_points' >= total_points]_vars

\* C3: every user_module_progress row with is_completed = true has
\* progress_percentage = 100.
C3_CompletedIsFull ==
  \A i \in 1..Len(user_module_progress) :
    user_module_progress[i].is_completed
      => user_module_progress[i].progress_percentage = 100

\* C4: user_module_progress never holds two rows with the same
\* (user_id, module_id), whatever two sessions generate, upsert, complete
\* and reset.
C4_OneRowPerUserModule ==
  \A i, j \in 1..Len(user_module_progress) :
    (user_module_progress[i].user_id = user_module_progress[j].user_id
       /\ user_module_progress[i].module_id = user_module_progress[j].module_id)
      => i = j

\* C4 witness: s1's insert has been answered and s2, whose modules query
\* has not seen the row, has its own insert of the same module in flight.
C4_RacingGenerate ==
  /\ pc["s1"] = "idle" /\ "modules" \in inval["s1"]
  /\ pc["s2"] = "gm_insert" /\ modules["s2"] = << >>
  /\ \E i \in 1..Len(user_module_progress), m \in op["s2"].mods :
       user_module_progress[i].module_id = m.id

\* C5: a step that adds a user_badges row is the badge step of a
\* completeModule call whose score is at least 85.
C5_BadgeOnlyWhenPassing ==
  [][Len(user_badges') > Len(user_badges) =>
       \E s \in DOMAIN pc :
         pc[s] = "cm_badge" /\ op[s].num >= PassingScore * op[s].den]_vars

\* C5 witness: a completion has inserted a badge row.
C5_BadgeInserted ==
  /\ Len(user_badges) = 1
  /\ \E s \in DOMAIN inval : pc[s] = "idle" /\ "userBadges" \in inval[s]

\* C6: every progress_percentage stored in user_module_progress (by
\* submitQuizAnswer, completeModule, resetModuleForRetake, generateModules,
\* updateProgress) or in progress (by handleMarkComplete) is an integer
\* from 0 to 100.
C6_ProgressInRange ==
  /\ \A i \in 1..Len(user_module_progress) :
       user_module_progress[i].progress_percentage \in 0..100
  /\ \A i \in 1..Len(progress_rows) :
       progress_rows[i].progress_percentage \in 0..100

\* C6 witness: submitQuizAnswer has written 50 and ModulePage's
\* updateProgress has written 50 + points_reward into a row of its own.
C6_PartialProgressWritten ==
  \E i, j \in 1..Len(user_module_progress) :
    /\ user_module_progress[i].module_id \in ApiModuleIds
    /\ user_module_progress[i].progress_percentage = 50
    /\ user_module_progress[j].module_id \notin ApiModuleIds
    /\ user_module_progress[j].progress_percentage = 60

\* C7: a select, insert or update on profiles, user_assessments,
\* user_module_progress, user_quiz_attempts or user_achievements under
\* identity u reads and writes only rows whose owner column is u.
C7_OwnRowsOnly ==
  lastReq.table \in OwnedTables => \A r \in lastReq.rows : r.owner = lastReq.uid

\* C7 witness: u1 has selected from user_module_progress and got a row
\* while the table also holds a row of u2.
C7_SelectBesideForeignRow ==
  /\ lastReq.kind = "select" /\ lastReq.uid = "u1"
  /\ lastReq.table = "user_module_progress"
  /\ lastReq.rows # {}
  /\ [table |-> "user_module_progress", owner |-> "u2"] \in db

\* C8: completeModule invalidates the modules and profile queries only once
\* the progress update and the total_points update have both been answered,
\* and a completion that ends as failed invalidates neither.
C8_RereadOnlyAfterCompletion ==
  [][\A s \in DOMAIN pc :
       (pc[s] \in completing /\ inval'[s] \cap {"modules", "profile"} # {})
         => /\ pc[s] \in {"cm_points", "cm_badge"}
            /\ result'[s].status # "error"]_vars

\* C9: once every handler has returned, after k correct submitQuizAnswer
\* calls and one completeModule whose points write was answered,
\* total_points = 0 + 5k + points_reward.
C9_ExactAccumulation ==
  (allIdle /\ completions = 1) => total_points = awarded

\* C10: a completeModule call with score >= 85 whose three writes are all
\* answered without error ends on the success path, with the earned badge
\* and hasPassingScore = true.
C10_PassingEndsInSuccess ==
  [][\A s \in DOMAIN pc :
       (pc[s] = "cm_badge" /\ op[s].pointsWritten
          /\ Len(user_badges') = Len(user_badges) + 1)
         => /\ result'[s].status = "success"
            /\ result'[s].hasPassingScore
            /\ result'[s].earnedBadge # Null]_vars

\* completeModule writes (cached total) + points_reward: the total is
\* computed from the cached profile when the call starts, and the answered
\* points write stores exactly that total, whatever the score
cmWritesPoints(s) ==
  /\ (pc[s] = "idle" /\ pc'[s] = "cm_update")
       => op'[s].total = profile[s] + selectedModule[s].points_reward
  /\ (pc[s] = "cm_points" /\ completions' = completions + 1)
       => total_points' = op[s].total

\* a completeModule call whose writes were all answered without error
\* returns: below the passing score after the points write, otherwise after
\* the badge insert
cmAllWritten(s) ==
  \/ pc[s] = "cm_points" /\ pc'[s] = "idle" /\ completions' = completions + 1
  \/ pc[s] = "cm_badge" /\ op[s].pointsWritten
       /\ Len(user_badges') = Len(user_badges) + 1

\* C11: every completeModule call, for every score, writes total_points =
\* (cached profile total) + points_reward, and one whose writes all succeed
\* ends reporting modulePoints = points_reward on the success path; the
\* score decides only the badge.
C11_PointsRegardlessOfScore ==
  [][\A s \in DOMAIN pc :
       /\ cmWritesPoints(s)
       /\ cmAllWritten(s)
            => /\ result'[s].status = "success"
               /\ result'[s].modulePoints = op[s].points_reward]_vars

\* C12: on a dialog whose module is completed or read-only, a call of
\* handleAnswerSelect or submitQuizAnswer leaves answers, quizResults,
\* completedQuizzes, incorrectQuizzes, the stored progress rows and the
\* stored total_points unchanged, and starts no request.
C12_ReadOnlyFrame ==
  [][\A s \in DOMAIN pc, q \in QuizIds, a \in {"right", "wrong"} :
       ((selectedModule[s].is_read_only \/ selectedModule[s].is_completed)
          /\ (handleAnswerSelect(s, q, a) \/ submitQuizAnswer(s, q)))
         => /\ UNCHANGED <<answers, quizResults, completedQuizzes, incorrectQuizzes,
                           user_module_progress, total_points>>
            /\ pc'[s] = "idle"]_vars

\* C12 witness: submitQuizAnswer has been called on a read-only module
\* that still holds a selected answer.
C12_SubmitOnReadOnly ==
  \E s \in DOMAIN called :
    /\ called[s] = "submitQuizAnswer"
    /\ selectedModule[s].is_read_only
    /\ \E q \in QuizIds : answers[s][q] = "right"

\* C13: the Complete Module action starts only in states where every quiz
\* of the selected module has been submitted (is in completedQuizzes).
C13_CompleteNeedsAllSubmitted ==
  [][\A s \in DOMAIN pc :
       (pc[s] = "idle" /\ pc'[s] = "cm_update")
         => \A q \in 1..selectedModule[s].nquiz : q \in completedQuizzes[s]]_vars

\* C14: resetModuleForRetake starts only on a read-only module whose
\* latest completion was made with a score below 85.
C14_RetakeOnlyBelowPassing ==
  [][\A s \in DOMAIN pc :
       (pc[s] = "idle" /\ pc'[s] = "rs_update")
         => /\ selectedModule[s].is_read_only
            /\ selectedModule[s].module_id \notin passed]_vars

\* C15: retryIncorrectAnswers removes the entries of every quiz in
\* incorrectQuizzes from answers, quizResults and completedQuizzes, leaves
\* the entries of every other quiz as they were and empties
\* incorrectQuizzes; on a read-only module it changes none of the four.
C15_RetryClearsOnlyIncorrect ==
  [][\A s \in DOMAIN pc :
       retryIncorrectAnswers(s) =>
         IF selectedModule[s].is_read_only
           THEN UNCHANGED <<answers, quizResults, completedQuizzes, incorrectQuizzes>>
           ELSE /\ \A q \in QuizIds :
                     IF q \in incorrectQuizzes[s]
                       THEN /\ answers'[s][q] = "none"
                            /\ quizResults'[s][q] = "none"
                            /\ q \notin completedQuizzes'[s]
                       ELSE /\ answers'[s][q] = answers[s][q]
                            /\ quizResults'[s][q] = quizResults[s][q]
                            /\ (q \in completedQuizzes'[s]) = (q \in completedQuizzes[s])
                /\ incorrectQuizzes'[s] = {}]_vars

\* C15 witness: after a call of retryIncorrectAnswers on a module with two
\* quizzes, a correctly answered quiz is still there and the other one is
\* cleared.
C15_RetryKeptCorrect ==
  \E s \in DOMAIN called :
    /\ called[s] = "retryIncorrectAnswers"
    /\ ~selectedModule[s].is_read_only
    /\ selectedModule[s].nquiz = 2
    /\ incorrectQuizzes[s] = {}
    /\ \E q, r \in QuizIds :
         /\ quizResults[s][q] = "true" /\ q \in completedQuizzes[s]
         /\ answers[s][r] = "none" /\ quizResults[s][r] = "none"
         /\ r \notin completedQuizzes[s]

\* C16: when the update of resetModuleForRetake is answered without error,
\* the module's row has progress_percentage = 0, is_completed = false and
\* is_read_only = false, and answers, quizResults, completedQuizzes and
\* incorrectQuizzes are empty; when it fails, the stored rows and the four
\* local sets are unchanged.
C16_ResetAllOrNothing ==
  [][\A s \in DOMAIN pc :
       (pc[s] = "rs_update" /\ pc'[s] = "idle") =>
         IF failures' = failures
           THEN /\ \A i \in 1..Len(user_module_progress') :
                     Matches(user_module_progress'[i], UserId, op[s].module_id)
                       => /\ user_module_progress'[i].progress_percentage = 0
                          /\ ~user_module_progress'[i].is_completed
                          /\ ~user_module_progress'[i].is_read_only
                /\ answers'[s] = NoAnswers /\ quizResults'[s] = NoAnswers
                /\ completedQuizzes'[s] = {} /\ incorrectQuizzes'[s] = {}
           ELSE UNCHANGED <<user_module_progress, answers, quizResults,
                            completedQuizzes, incorrectQuizzes>>]_vars

\* C16 witness: a reset has been answered for a row that is stored as not
\* completed while the dialog still shows the read-only module, with the
\* local sets empty.
C16_ResetAnswered ==
  \E s \in DOMAIN pc :
    /\ pc[s] = "idle" /\ inval[s] = {"modules"} /\ result[s] = NoResult
    /\ selectedModule[s].is_read_only
    /\ answers[s] = NoAnswers /\ completedQuizzes[s] = {}
    /\ completions > 0
    /\ \E i \in 1..Len(user_module_progress) :
         /\ Matches(user_module_progress[i], UserId, selectedModule[s].module_id)
         /\ user_module_progress[i].progress_percentage = 0
         /\ ~user_module_progress[i].is_completed


\* C17: a signup that handleSignUp reported as successful leaves exactly one
\* profiles row for the user, with the submitted role and skill level, and
\* with form and subject null unless the role is student.
C17_SignupLeavesOneProfile ==
  (su.pc = "idle" /\ su.reported = "success") =>
    /\ Cardinality({i \in 1..Len(profiles) : profiles[i].id = su.user}) = 1
    /\ \A i \in 1..Len(profiles) :
         profiles[i].id = su.user =>
           /\ profiles[i].role = su.role
           /\ profiles[i].skill_level = su.skillLevel
           /\ su.role # "student" =>
                (profiles[i].form = NoValue /\ profiles[i].subject = NoValue)

\* C17 witness: a teacher's signup was reported successful; the form data
\* carried a form and a subject, and the row the trigger had inserted now
\* has the submitted role and skill level.
C17_TeacherSignedUp ==
  /\ su.pc = "idle" /\ su.reported = "success"
  /\ su.role = "teacher" /\ su.skillLevel = "advanced"
  /\ su.form # NoValue /\ su.subject # NoValue
  /\ session = su.user
  /\ \E i \in 1..Len(profiles) :
       /\ profiles[i].id = su.user
       /\ profiles[i].role = "teacher" /\ profiles[i].skill_level = "advanced"
       /\ profiles[i].form = NoValue

\* C18: every step that inserts a row into lessons is taken for a caller
\* who is authenticated and whose profile has the role teacher.
C18_OnlyTeachersInsertLessons ==
  [][Len(lessons') > Len(lessons) =>
       /\ session # Anon
       /\ \E i \in 1..Len(profiles) :
            profiles[i].id = session /\ profiles[i].role = "teacher"]_vars

====
